---- MODULE Spec2Model ----
(***************************************************************************)
(* Model of the ml4logs BERT scripts:                                      *)
(*   encoders.py                                   DistilBertForClsEmbedding*)
(*   embed_dataset_using_pretrained_model.py       unlabeled embedding     *)
(*   embed_labeled_dataset_for_anomaly_detection.py  labeled embedding     *)
(*   train_ict_preprocessed_data.py                ICT training runner     *)
(* Strings are sequences of characters (one-character strings, or a literal*)
(* of the source kept as one atom).  Python's None is the value NONE.      *)
(***************************************************************************)
EXTENDS Integers, Sequences, FiniteSets, TLC

\* Python's None: a value no string of the model equals
NONE == <<"None">>

\* ---------------------------------------------------------------- bounds
MaxPathLen == 3
MaxBatch == 2
MaxClsDim == 2
ModelMaxLen == 3
MaxLines == 3
MaxLogLines == 3
MaxCsvRows == 2
MaxNameLen == 2

\* ------------------------------------------------------- generic helpers
SeqsUpTo(S, n) == UNION {[1..k -> S] : k \in 0..n}

Max(a, b) == IF a >= b THEN a ELSE b

Min(a, b) == IF a <= b THEN a ELSE b

RECURSIVE Concat(_)
\* ''.join(parts): the concatenation of a sequence of strings
Concat(ss) == IF ss = <<>> THEN <<>> ELSE Head(ss) \o Concat(Tail(ss))

\* Python's `needle in hay` for strings: needle is a contiguous substring
Contains(hay, needle) ==
    \E i \in 0..(Len(hay) - Len(needle)) :
        SubSeq(hay, i + 1, i + Len(needle)) = needle

\* ------------------------------------------------------------- tokenizer
\* tokenizer(batch, truncation=True, padding=True): every text becomes
\* [CLS] words [SEP], cut to the model's maximal length (the final [SEP] is
\* kept), and the batch is padded with [PAD] to its longest row; the
\* attention mask is 1 on real tokens and 0 on padding.
TokenizeOne(text) ==
    LET full == <<"[CLS]">> \o text \o <<"[SEP]">>
    IN  IF Len(full) <= ModelMaxLen THEN full
        ELSE SubSeq(full, 1, ModelMaxLen - 1) \o <<"[SEP]">>

RECURSIVE LongestRow(_)
LongestRow(rows) ==
    IF rows = <<>> THEN 0 ELSE Max(Len(Head(rows)), LongestRow(Tail(rows)))

Tokenizer(texts) ==
    LET rows == [b \in 1..Len(texts) |-> TokenizeOne(texts[b])]
        width == LongestRow(rows)
    IN  [input_ids |->
            [b \in 1..Len(texts) |->
                [p \in 1..width |->
                    IF p <= Len(rows[b]) THEN rows[b][p] ELSE "[PAD]"]],
         attention_mask |->
            [b \in 1..Len(texts) |->
                [p \in 1..width |-> IF p <= Len(rows[b]) THEN 1 ELSE 0]]]

\* --------------------------------------------------------------- encoder
TokenCode(tok) ==
    CASE tok = "[PAD]" -> 0
      [] tok = "[CLS]" -> 1
      [] tok = "[SEP]" -> 2
      [] tok = "w1" -> 3
      [] OTHER -> 4

RECURSIVE AttendedSum(_, _, _)
\* the contribution of the attended positions 1..p of one row
AttendedSum(ids, mask, p) ==
    IF p = 0 THEN 0
    ELSE AttendedSum(ids, mask, p - 1) + mask[p] * p * TokenCode(ids[p])

\* DistilBertModel: the hidden state of a position depends on the token at
\* that position and on every position the attention mask lets it attend to.
DistilBertModel(input_ids, attention_mask) ==
    [b \in 1..Len(input_ids) |->
        [p \in 1..Len(input_ids[b]) |->
            (TokenCode(input_ids[b][p]) * 3
               + AttendedSum(input_ids[b], attention_mask[b], Len(input_ids[b]))) % 11]]

\* torch.nn.Linear(config.dim, out_dim) applied to one hidden vector
cls_projector(x, out_dim) == [j \in 1..out_dim |-> (j * x + 1) % 11]

ClsDefaultDimension == 512

\* config.task_specific_params is None, or a dictionary
NoParams == [None |-> TRUE]

EmptyDict == [k \in {} |-> 0]

\* DistilBertForClsEmbedding.__init__: the dictionary left in
\* config.task_specific_params
InitTaskSpecificParams(task_specific_params) ==
    LET d == IF task_specific_params = NoParams THEN EmptyDict
                 ELSE task_specific_params
    IN  [k \in DOMAIN d \cup {"cls_embedding_dimension"} |->
            IF k \in DOMAIN d THEN d[k] ELSE ClsDefaultDimension]

\* a slip: the projection always has the default width
DistilBertForClsEmbeddingFixedDim(task_specific_params) ==
    [task_specific_params |-> InitTaskSpecificParams(task_specific_params),
     out_features |-> ClsDefaultDimension]

\* DistilBertForClsEmbedding.__init__: the model built from a config
DistilBertForClsEmbedding(task_specific_params) ==
    LET d == InitTaskSpecificParams(task_specific_params)
    IN  [task_specific_params |-> d,
         out_features |-> d["cls_embedding_dimension"]]

\* a slip: the last position, [:, -1], instead of the first
ClsPositionLast(row) == Len(row)

\* the position of last_hidden_state the embedding is read from: [:, 0]
ClsPosition(row) == 1

\* DistilBertForClsEmbedding.forward
forward(encoder, input_ids, attention_mask) ==
    LET last_hidden_state == DistilBertModel(input_ids, attention_mask)
    IN  [last_hidden_state |-> last_hidden_state,
         embedding |->
            [b \in 1..Len(input_ids) |->
                cls_projector(last_hidden_state[b][ClsPosition(last_hidden_state[b])],
                              encoder.out_features)]]

\* ----------------------------------------------------------------- paths
RECURSIVE SplitSlash(_)
\* str.split('/'): the components between the slashes, empty ones included
SplitSlash(s) ==
    IF s = <<>> THEN << <<>> >>
    ELSE LET rest == SplitSlash(Tail(s))
         IN  IF Head(s) = "/" THEN << <<>> >> \o rest
             ELSE << <<Head(s)>> \o Head(rest) >> \o Tail(rest)

RECURSIVE LeadingSlashes(_)
LeadingSlashes(s) ==
    IF s = <<>> \/ Head(s) # "/" THEN 0 ELSE 1 + LeadingSlashes(Tail(s))

IsRealComponent(c) == c # <<>> /\ c # <<".">>

\* pathlib.Path(s): the root ('' , '/' or '//') and the components, without
\* the empty and the '.' components
Path(s) ==
    [root  |-> CASE LeadingSlashes(s) = 0 -> <<>>
                 [] LeadingSlashes(s) = 2 -> <<"/", "/">>
                 [] OTHER -> <<"/">>,
     parts |-> SelectSeq(SplitSlash(s), IsRealComponent)]

\* Path.name: the final component, '' when there is none
PathName(p) == IF p.parts = <<>> THEN <<>> ELSE p.parts[Len(p.parts)]

RECURSIVE RFindDot(_)
\* 1-based index of the last '.', 0 when there is none (str.rfind + 1)
RFindDot(name) ==
    IF name = <<>> THEN 0
    ELSE IF name[Len(name)] = "." THEN Len(name)
    ELSE RFindDot(SubSeq(name, 1, Len(name) - 1))

\* Path.stem: the final component without its suffix
Stem(p) ==
    LET name == PathName(p)
        i == RFindDot(name)
    IN  IF 1 < i /\ i < Len(name) THEN SubSeq(name, 1, i - 1) ELSE name

\* Path.__truediv__: a rooted right operand replaces the left one
JoinPath(p, q) ==
    IF q.root # <<>> THEN q
    ELSE [root |-> p.root, parts |-> p.parts \o q.parts]

\* ------------------------------------------------------ output directory
\* the generated dataset name of embed_dataset_using_pretrained_model.py
UnlabeledGeneratedName(input_dataset_log_file, model_path) ==
    Stem(Path(input_dataset_log_file)) \o <<"/">> \o <<"embedding_from_">>
        \o Stem(Path(model_path))

\* a slip: the labeled script keeps the name format it was copied from
LabeledGeneratedNameCopied(input_dataset_log_file, model_path) ==
    UnlabeledGeneratedName(input_dataset_log_file, model_path)

\* the generated dataset name of embed_labeled_dataset_for_anomaly_detection.py
LabeledGeneratedName(input_dataset_log_file, model_path) ==
    Stem(Path(input_dataset_log_file)) \o <<"/">> \o <<"labeled_", "embedding_from_">>
        \o Stem(Path(model_path))

GeneratedName(which, input_dataset_log_file, model_path) ==
    IF which = "labeled"
    THEN LabeledGeneratedName(input_dataset_log_file, model_path)
    ELSE UnlabeledGeneratedName(input_dataset_log_file, model_path)

\* dataset_name of embed_dataset: the given name unless it is None
DatasetName(which, cfg) ==
    IF cfg.dataset_output_name = NONE
    THEN GeneratedName(which, cfg.input_dataset_log_file, cfg.model_path)
    ELSE cfg.dataset_output_name

OutputPath(which, cfg) ==
    JoinPath(Path(cfg.output_parent_folder), Path(DatasetName(which, cfg)))

\* the three (labeled: four) assertions on the arguments
RequiredArgsGiven(which, cfg) ==
    /\ cfg.model_path # NONE
    /\ cfg.input_dataset_log_file # NONE
    /\ which = "labeled" => cfg.input_dataset_labels_csv # NONE
    /\ cfg.output_parent_folder # NONE

\* a slip: any existing directory is accepted, its entries are not looked at
OutputPathUsableAnyDir(st) == (~st.exists) \/ (st.exists /\ st.is_dir)

\* the assertion on the output path: it does not exist, or it is a
\* directory without entries
OutputPathUsable(st) ==
    (~st.exists) \/ (st.exists /\ st.is_dir /\ ~(st.entries > 0))

\* ----------------------------------------------------- dataset functions
\* dataset_utils.remove_timestamp: one example in, one example out, without
\* its leading timestamp
remove_timestamp(example) ==
    [text |-> IF example.text # <<>> /\ Head(example.text) = "ts"
              THEN Tail(example.text) ELSE example.text]

\* encode_dataset of the unlabeled script: the embeddings of one batch
encode_dataset(examples, encoder) ==
    LET tok == Tokenizer([k \in 1..Len(examples) |-> examples[k].text])
    IN  forward(encoder, tok.input_ids, tok.attention_mask).embedding

\* encode_batch of the labeled script: the embeddings of the lines of a block
encode_batch(batch, encoder) ==
    LET tok == Tokenizer(batch)
    IN  forward(encoder, tok.input_ids, tok.attention_mask).embedding

BlockLine(line) == line.text

\* dataset_utils.load_hdfs1_log_file_grouped: block id -> its lines, in
\* file order
load_hdfs1_log_file_grouped(file) ==
    [b \in {file[i].blk : i \in 1..Len(file)} |->
        LET mine(line) == line.blk = b
            lines == SelectSeq(file, mine)
        IN  [k \in 1..Len(lines) |-> BlockLine(lines[k])]]

\* a slip: the label is compared without regard to case
LabelConverterAnyCase(x) == x \in {"Anomaly", "anomaly", "ANOMALY"}

\* the converter of the Label column: lambda x: x == 'Anomaly'
LabelConverter(x) == x = "Anomaly"

\* pd.read_csv(label_path, converters={'Label': ...})
read_csv(rows) ==
    [i \in 1..Len(rows) |->
        [BlockId |-> rows[i].BlockId, Label |-> LabelConverter(rows[i].Label)]]

\* a slip: one embedding per distinct block id of the CSV (Series.unique),
\* where the code iterates labels_df['BlockId'] row by row, repeats included
OrderedByLabelUnique(embedded, df) ==
    LET RECURSIVE Distinct(_, _)
        Distinct(rows, seen) ==
            IF rows = <<>> THEN <<>>
            ELSE IF Head(rows).BlockId \in seen THEN Distinct(Tail(rows), seen)
            ELSE <<Head(rows).BlockId>>
                    \o Distinct(Tail(rows), seen \cup {Head(rows).BlockId})
        ids == Distinct(df, {})
    IN  [i \in 1..Len(ids) |-> embedded[ids[i]]]

\* [embedded_dataset[block_id] for block_id in labels_df['BlockId']]
OrderedByLabel(embedded, df) ==
    [i \in 1..Len(df) |-> embedded[df[i].BlockId]]

\* labels_df['Label'].to_numpy(dtype=np.int8)
LabelsToInt8(df) == [i \in 1..Len(df) |-> IF df[i].Label THEN 1 ELSE 0]

\* the class names of KNOWN_ENCODER_CLASSES.values()
KnownEncoderClassNames == {"DistilBertForClsEmbedding"}

\* ----------------------------------------------------------------- state
VARIABLES
    script,             \* which program runs
    pc,                 \* its position
    config,             \* the parsed command line
    output_path_state,  \* what is at the output path when the script starts
    log_file,           \* the lines of the input log file
    labels_csv,         \* the rows of the labels CSV
    model_config,       \* the config stored with the pretrained model
    effects,            \* what the script has loaded or written so far
    dataset_name,       \* embed_dataset's local dataset_name
    output_path,        \* embed_dataset's local output_path
    encoder_model,      \* the encoder built from model_config
    dataset,            \* the loaded (and cleaned) dataset
    labels_df,          \* the labels data frame
    embedded_dataset,   \* the embeddings computed so far
    saved,              \* what was written to the output path
    RUN_NAME,           \* run_experiment's RUN_NAME
    model,              \* the ICT model run_experiment built
    call                \* the last call of forward: its inputs and outputs

vars == <<script, pc, config, output_path_state, log_file, labels_csv,
          model_config, effects, dataset_name, output_path, encoder_model,
          dataset, labels_df, embedded_dataset, saved, RUN_NAME, model, call>>

\* ---------------------------------------------------------------- inputs
PathChars == {"a", ".", "/"}

ModelPathChars == {"m", "."}

Texts == { <<>>, <<"w1">>, <<"ts", "w1", "w2">> }

BlockTexts == { <<"w1">>, <<"ts", "w1", "w2">> }

Blocks == {"blk_1", "blk_2"}

LabelStrings == {"Anomaly", "Normal", "anomaly"}

Absent == [exists |-> FALSE, is_dir |-> FALSE, entries |-> 0]

OutputPathStates ==
    { Absent,
      [exists |-> TRUE, is_dir |-> FALSE, entries |-> 0],
      [exists |-> TRUE, is_dir |-> TRUE, entries |-> 0],
      [exists |-> TRUE, is_dir |-> TRUE, entries |-> 1] }

SmallModelConfig ==
    [architectures |-> <<"DistilBertForClsEmbedding">>,
     task_specific_params |-> [k \in {"cls_embedding_dimension"} |-> 2]]

OneLine == << [blk |-> "blk_1", text |-> <<"w1">>] >>

OneRow == << [BlockId |-> "blk_1", Label |-> "Anomaly"] >>

EmbedConfig(mp, inp, csv, parent, name, bs, rm) ==
    [model_path |-> mp, input_dataset_log_file |-> inp,
     input_dataset_labels_csv |-> csv, output_parent_folder |-> parent,
     dataset_output_name |-> name, batch_size |-> bs,
     remove_hdfs1_timestamp |-> rm]

Untouched ==
    /\ pc = "start"
    /\ effects = {}
    /\ dataset_name = NONE
    /\ output_path = NONE
    /\ encoder_model = NONE
    /\ dataset = NONE
    /\ labels_df = NONE
    /\ embedded_dataset = <<>>
    /\ saved = NONE
    /\ RUN_NAME = NONE
    /\ model = NONE
    /\ call = NONE

\* the arguments may be missing, the output path may be anything
InitArgs ==
    /\ script \in {"unlabeled", "labeled"}
    /\ \E mp \in {NONE, <<"m">>}, inp \in {NONE, <<"a">>},
          csv \in {NONE, <<"c">>}, parent \in {NONE, <<"o">>},
          name \in {NONE, <<>>, <<"n">>} :
            /\ script = "unlabeled" => csv = NONE
            /\ config = EmbedConfig(mp, inp, csv, parent, name, 1, FALSE)
    /\ output_path_state \in OutputPathStates
    /\ log_file = OneLine
    /\ labels_csv = OneRow
    /\ model_config \in
         {SmallModelConfig, [SmallModelConfig EXCEPT !.architectures = <<"BertModel">>]}
    /\ script = "unlabeled" => model_config = SmallModelConfig

\* the paths vary
InitNaming ==
    /\ script \in {"unlabeled", "labeled"}
    /\ \E mp \in SeqsUpTo(ModelPathChars, MaxPathLen),
          inp \in SeqsUpTo(PathChars, MaxPathLen),
          name \in {NONE, <<"/", "n">>} :
            config = EmbedConfig(mp, inp, <<"c">>, <<"o">>, name, 1, FALSE)
    /\ output_path_state = Absent
    /\ log_file = <<>>
    /\ labels_csv = <<>>
    /\ model_config = SmallModelConfig

\* the data vary
InitData ==
    /\ script \in {"unlabeled", "labeled"}
    /\ \E bs \in 1..MaxBatch, rm \in BOOLEAN :
          /\ script = "labeled" => bs = 1 /\ rm = FALSE
          /\ config = EmbedConfig(<<"m">>, <<"a">>, <<"c">>, <<"o">>, NONE, bs, rm)
    /\ output_path_state = Absent
    /\ IF script = "unlabeled"
       THEN /\ log_file \in SeqsUpTo([blk : {"blk_1"}, text : Texts], MaxLines)
            /\ labels_csv = <<>>
       ELSE /\ log_file \in SeqsUpTo([blk : Blocks, text : BlockTexts], MaxLogLines)
            /\ labels_csv \in SeqsUpTo([BlockId : Blocks, Label : LabelStrings], MaxCsvRows)
    /\ model_config = SmallModelConfig

InitEmbed == Untouched /\ (InitArgs \/ InitNaming \/ InitData)

\* -------------------------------------------- embed_dataset, both scripts
\* the assertions on the arguments, the output name and the assertion on the
\* output path
Check ==
    /\ pc = "start"
    /\ script \in {"unlabeled", "labeled"}
    /\ IF ~RequiredArgsGiven(script, config)
       THEN /\ pc' = "AssertionError"
            /\ UNCHANGED <<dataset_name, output_path>>
       ELSE /\ dataset_name' = DatasetName(script, config)
            /\ output_path' = OutputPath(script, config)
            /\ pc' = IF OutputPathUsable(output_path_state)
                     THEN "checked" ELSE "AssertionError"
    /\ UNCHANGED <<script, config, output_path_state, log_file, labels_csv,
                   model_config, effects, encoder_model, dataset, labels_df,
                   embedded_dataset, saved, RUN_NAME, model, call>>

\* load_dataset('text', ...) and the optional remove_timestamp map
U_LoadDataset ==
    /\ pc = "checked"
    /\ script = "unlabeled"
    /\ dataset' =
         LET raw == [i \in 1..Len(log_file) |-> [text |-> log_file[i].text]]
         IN  IF config.remove_hdfs1_timestamp
             THEN [i \in 1..Len(raw) |-> remove_timestamp(raw[i])]
             ELSE raw
    /\ effects' = effects \cup {"dataset"}
    /\ pc' = "loaded"
    /\ UNCHANGED <<script, config, output_path_state, log_file, labels_csv,
                   model_config, dataset_name, output_path, encoder_model,
                   labels_df, embedded_dataset, saved, RUN_NAME, model, call>>

\* AutoTokenizer / DistilBertForClsEmbedding.from_pretrained(...).eval()
U_LoadModel ==
    /\ pc = "loaded"
    /\ script = "unlabeled"
    /\ encoder_model' = DistilBertForClsEmbedding(model_config.task_specific_params)
    /\ effects' = effects \cup {"model"}
    /\ pc' = "mapping"
    /\ UNCHANGED <<script, config, output_path_state, log_file, labels_csv,
                   model_config, dataset_name, output_path, dataset, labels_df,
                   embedded_dataset, saved, RUN_NAME, model, call>>

\* Dataset.map(encode_dataset, batched=True, batch_size=...): the next batch
U_MapBatch ==
    /\ pc = "mapping"
    /\ script = "unlabeled"
    /\ Len(embedded_dataset) < Len(dataset)
    /\ LET from == Len(embedded_dataset) + 1
           to == Min(Len(embedded_dataset) + config.batch_size, Len(dataset))
           examples == SubSeq(dataset, from, to)
           embedding == encode_dataset(examples, encoder_model)
       IN  embedded_dataset' = embedded_dataset \o
               [k \in 1..Len(examples) |->
                   [text |-> examples[k].text, embedding |-> embedding[k]]]
    /\ UNCHANGED <<script, pc, config, output_path_state, log_file, labels_csv,
                   model_config, effects, dataset_name, output_path,
                   encoder_model, dataset, labels_df, saved, RUN_NAME, model, call>>

\* embedded_dataset.save_to_disk(output_path)
U_Save ==
    /\ pc = "mapping"
    /\ script = "unlabeled"
    /\ Len(embedded_dataset) = Len(dataset)
    /\ saved' = embedded_dataset
    /\ effects' = effects \cup {"written"}
    /\ pc' = "done"
    /\ UNCHANGED <<script, config, output_path_state, log_file, labels_csv,
                   model_config, dataset_name, output_path, encoder_model,
                   dataset, labels_df, embedded_dataset, RUN_NAME, model, call>>

\* load_hdfs1_log_file_grouped and pd.read_csv
L_LoadDataset ==
    /\ pc = "checked"
    /\ script = "labeled"
    /\ dataset' = load_hdfs1_log_file_grouped(log_file)
    /\ labels_df' = read_csv(labels_csv)
    /\ effects' = effects \cup {"dataset"}
    /\ pc' = "loaded"
    /\ UNCHANGED <<script, config, output_path_state, log_file, labels_csv,
                   model_config, dataset_name, output_path, encoder_model,
                   embedded_dataset, saved, RUN_NAME, model, call>>

\* the encoder class is looked up by the architecture the model config names
L_LoadModel ==
    /\ pc = "loaded"
    /\ script = "labeled"
    /\ IF model_config.architectures[1] \in KnownEncoderClassNames
       THEN /\ encoder_model' = DistilBertForClsEmbedding(model_config.task_specific_params)
            /\ effects' = effects \cup {"model"}
            /\ pc' = "embedding"
       ELSE /\ pc' = "KeyError"
            /\ UNCHANGED <<encoder_model, effects>>
    /\ UNCHANGED <<script, config, output_path_state, log_file, labels_csv,
                   model_config, dataset_name, output_path, dataset, labels_df,
                   embedded_dataset, saved, RUN_NAME, model, call>>

\* {block_id: encode_batch(block_lines, ...) for block_id, block_lines in dataset.items()}
L_Embed ==
    /\ pc = "embedding"
    /\ script = "labeled"
    /\ embedded_dataset' =
         [b \in DOMAIN dataset |-> encode_batch(dataset[b], encoder_model)]
    /\ pc' = "embedded"
    /\ UNCHANGED <<script, config, output_path_state, log_file, labels_csv,
                   model_config, effects, dataset_name, output_path,
                   encoder_model, dataset, labels_df, saved, RUN_NAME, model, call>>

\* ordered_by_label, mkdir, X.pickle and y.npy
L_Save ==
    /\ pc = "embedded"
    /\ script = "labeled"
    /\ IF \E i \in 1..Len(labels_df) : labels_df[i].BlockId \notin DOMAIN embedded_dataset
       THEN /\ pc' = "KeyError"
            /\ UNCHANGED <<saved, effects>>
       ELSE /\ saved' = [X |-> OrderedByLabel(embedded_dataset, labels_df),
                         y |-> LabelsToInt8(labels_df)]
            /\ effects' = effects \cup {"written"}
            /\ pc' = "done"
    /\ UNCHANGED <<script, config, output_path_state, log_file, labels_csv,
                   model_config, dataset_name, output_path, encoder_model,
                   dataset, labels_df, embedded_dataset, RUN_NAME, model, call>>

NextEmbed ==
    \/ Check
    \/ U_LoadDataset
    \/ U_LoadModel
    \/ U_MapBatch
    \/ U_Save
    \/ L_LoadDataset
    \/ L_LoadModel
    \/ L_Embed
    \/ L_Save

SpecEmbed == InitEmbed /\ [][NextEmbed]_vars

\* ------------------------------------------------------- training script
KNOWN_ENCODER_CLASSES ==
    [k \in { <<"DistilbertCls">> } |-> "DistilBertForClsEmbedding"]

RECURSIVE IntToStr(_)
\* str(n) of an integer
IntToStr(n) ==
    IF n < 0 THEN <<"-">> \o IntToStr(0 - n)
    ELSE LET digit == <<"0", "1", "2", "3", "4", "5", "6", "7", "8", "9">>[(n % 10) + 1]
         IN  IF n < 10 THEN <<digit>> ELSE IntToStr(n \div 10) \o <<digit>>

\* Python's truth value of an int
Truthy(n) == n # 0

\* a slip: only the value 1 counts as two-tower
TowerTagOnlyOne(two_tower) == IF two_tower = 1 THEN <<"2", "T">> ELSE <<"1", "T">>

\* "2T" if two_tower else "1T"
TowerTag(two_tower) == IF Truthy(two_tower) THEN <<"2", "T">> ELSE <<"1", "T">>

get_run_name(two_tower, fp16, ds_name, seed, target_max_seq_len, context_max_seq_len, train_batch_size, eval_batch_size, output_encode_dim, encoder_type, pretrained_checkpoint) ==
    encoder_type \o <<" ">> \o pretrained_checkpoint \o <<" ">>
      \o TowerTag(two_tower) \o (IF fp16 THEN <<" ", "fp16">> ELSE <<>>)
      \o <<" ">> \o ds_name
      \o <<" ", "Seed-">> \o IntToStr(seed)
      \o <<" ", "T-len", " ">> \o IntToStr(target_max_seq_len)
      \o <<" ", "C-len", " ">> \o IntToStr(context_max_seq_len)
      \o <<" ", "Tr-batch", " ">> \o IntToStr(train_batch_size)
      \o <<" ", "Ev-b", " ">> \o IntToStr(eval_batch_size)
      \o <<" ", "O-dim", " ">> \o IntToStr(output_encode_dim)

\* RUN_NAME.replace(' ', '_')
ReplaceSpaces(name) ==
    [i \in 1..Len(name) |-> IF name[i] = " " THEN "_" ELSE name[i]]

\* a slip: the encoder type is not checked
EncoderTypeUnchecked(encoder_type) == TRUE

\* config.encoder_type in KNOWN_ENCODER_CLASSES
EncoderTypeKnown(encoder_type) == encoder_type \in DOMAIN KNOWN_ENCODER_CLASSES

\* TwoTowerICT(...) if config.two_tower else OneTowerICT(...)
BuildModel(cfg) ==
    [class |-> IF Truthy(cfg.two_tower) THEN "TwoTowerICT" ELSE "OneTowerICT",
     tower_class |-> KNOWN_ENCODER_CLASSES[cfg.encoder_type],
     pretrained |-> cfg.bert_model,
     output_encode_dimension |-> cfg.output_encode_dim]

TwoTowerValues == {-1, 0, 1, 2}

NameChars == {"1", "2", "T", "d"}

InitTrain ==
    /\ Untouched
    /\ script = "train"
    /\ \E tt \in TwoTowerValues, half \in BOOLEAN,
          dn \in {NONE} \cup SeqsUpTo(NameChars, MaxNameLen),
          et \in { <<"DistilbertCls">>, <<"Bogus">> },
          tr \in {NONE, <<"t">>}, ev \in {NONE, <<"e">>} :
            config = [two_tower |-> tt, fp16 |-> half,
                      bert_model |-> <<"distilbert-base-cased">>,
                      encoder_type |-> et, train_batch_size |-> 64,
                      eval_batch_size |-> 64, target_max_seq_len |-> 512,
                      context_max_seq_len |-> 512, output_encode_dim |-> 100,
                      seed |-> 42, dataset_name |-> dn, train_dataset |-> tr,
                      eval_dataset |-> ev, wandb_project |-> NONE]
    /\ output_path_state = Absent
    /\ log_file = <<>>
    /\ labels_csv = <<>>
    /\ model_config = SmallModelConfig

\* WANDB_PROJECT, the two first assertions and the run name
T_Name ==
    /\ pc = "start"
    /\ script = "train"
    /\ IF config.dataset_name # NONE /\ EncoderTypeKnown(config.encoder_type)
       THEN /\ RUN_NAME' = get_run_name(config.two_tower, config.fp16,
                              config.dataset_name, config.seed,
                              config.target_max_seq_len, config.context_max_seq_len,
                              config.train_batch_size, config.eval_batch_size,
                              config.output_encode_dim, config.encoder_type,
                              config.bert_model)
            /\ pc' = "named"
       ELSE /\ pc' = "AssertionError"
            /\ UNCHANGED RUN_NAME
    /\ effects' = effects \cup {"WANDB_PROJECT"}
    /\ UNCHANGED <<script, config, output_path_state, log_file, labels_csv,
                   model_config, dataset_name, output_path, encoder_model,
                   dataset, labels_df, embedded_dataset, saved, model, call>>

\* the tokenizer and the data collator
T_Tokenizer ==
    /\ pc = "named"
    /\ script = "train"
    /\ effects' = effects \cup {"tokenizer"}
    /\ pc' = "collator"
    /\ UNCHANGED <<script, config, output_path_state, log_file, labels_csv,
                   model_config, dataset_name, output_path, encoder_model,
                   dataset, labels_df, embedded_dataset, saved, RUN_NAME, model, call>>

\* the two assertions on the datasets and my_caching_load_from_disk
T_LoadDatasets ==
    /\ pc = "collator"
    /\ script = "train"
    /\ IF config.train_dataset # NONE /\ config.eval_dataset # NONE
       THEN /\ dataset' = [train |-> config.train_dataset, eval |-> config.eval_dataset]
            /\ effects' = effects \cup {"dataset"}
            /\ pc' = "loaded"
       ELSE /\ pc' = "AssertionError"
            /\ UNCHANGED <<dataset, effects>>
    /\ UNCHANGED <<script, config, output_path_state, log_file, labels_csv,
                   model_config, dataset_name, output_path, encoder_model,
                   labels_df, embedded_dataset, saved, RUN_NAME, model, call>>

\* tower_class and the ICT model
T_BuildModel ==
    /\ pc = "loaded"
    /\ script = "train"
    /\ IF config.encoder_type \in DOMAIN KNOWN_ENCODER_CLASSES
       THEN /\ model' = BuildModel(config)
            /\ effects' = effects \cup {"model"}
            /\ pc' = "built"
       ELSE /\ pc' = "KeyError"
            /\ UNCHANGED <<model, effects>>
    /\ UNCHANGED <<script, config, output_path_state, log_file, labels_csv,
                   model_config, dataset_name, output_path, encoder_model,
                   dataset, labels_df, embedded_dataset, saved, RUN_NAME, call>>

\* TrainingArguments, Trainer and trainer.train
T_Train ==
    /\ pc = "built"
    /\ script = "train"
    /\ effects' = effects \cup {"trained"}
    /\ pc' = "trained"
    /\ UNCHANGED <<script, config, output_path_state, log_file, labels_csv,
                   model_config, dataset_name, output_path, encoder_model,
                   dataset, labels_df, embedded_dataset, saved, RUN_NAME, model, call>>

\* trainer.save_model and model.save_encoder
T_Save ==
    /\ pc = "trained"
    /\ script = "train"
    /\ saved' = [model_dir |-> <<"../../models/ICT/">> \o ReplaceSpaces(RUN_NAME),
                 encoder |-> ReplaceSpaces(RUN_NAME),
                 class |-> model.class]
    /\ effects' = effects \cup {"written"}
    /\ pc' = "done"
    /\ UNCHANGED <<script, config, output_path_state, log_file, labels_csv,
                   model_config, dataset_name, output_path, encoder_model,
                   dataset, labels_df, embedded_dataset, RUN_NAME, model, call>>

NextTrain ==
    \/ T_Name
    \/ T_Tokenizer
    \/ T_LoadDatasets
    \/ T_BuildModel
    \/ T_Train
    \/ T_Save

SpecTrain == InitTrain /\ [][NextTrain]_vars

\* ------------------------------------- DistilBertForClsEmbedding on its own
TaskSpecificParamsValues ==
    {NoParams, EmptyDict, [k \in {"other"} |-> 1]}
      \cup {[k \in {"cls_embedding_dimension"} |-> d] : d \in 1..MaxClsDim}

InitEncoder ==
    /\ Untouched
    /\ script = "forward"
    /\ config \in [texts : SeqsUpTo(Texts, MaxBatch) \ {<<>>}]
    /\ output_path_state = Absent
    /\ log_file = <<>>
    /\ labels_csv = <<>>
    /\ model_config \in [architectures : { <<"DistilBertForClsEmbedding">> },
                         task_specific_params : TaskSpecificParamsValues]

\* DistilBertForClsEmbedding.__init__
E_Init ==
    /\ pc = "start"
    /\ script = "forward"
    /\ encoder_model' = DistilBertForClsEmbedding(model_config.task_specific_params)
    /\ pc' = "built"
    /\ UNCHANGED <<script, config, output_path_state, log_file, labels_csv,
                   model_config, effects, dataset_name, output_path, dataset,
                   labels_df, embedded_dataset, saved, RUN_NAME, model, call>>

\* DistilBertForClsEmbedding.forward on a tokenized batch
E_Forward ==
    /\ pc = "built"
    /\ script = "forward"
    /\ LET tok == Tokenizer(config.texts)
           out == forward(encoder_model, tok.input_ids, tok.attention_mask)
       IN  call' = [input_ids |-> tok.input_ids,
                    attention_mask |-> tok.attention_mask,
                    last_hidden_state |-> out.last_hidden_state,
                    embedding |-> out.embedding]
    /\ pc' = "done"
    /\ UNCHANGED <<script, config, output_path_state, log_file, labels_csv,
                   model_config, effects, dataset_name, output_path,
                   encoder_model, dataset, labels_df, embedded_dataset, saved,
                   RUN_NAME, model>>

NextEncoder ==
    \/ E_Init
    \/ E_Forward

SpecEncoder == InitEncoder /\ [][NextEncoder]_vars

\* ------------------------------------------------ properties, SpecEmbed
\* the embeddings of the lines of block b of the loaded dataset, in order,
\* each line encoded on its own
BlockEmbedding(b) ==
    [k \in 1..Len(dataset[b]) |-> encode_batch(<<dataset[b][k]>>, encoder_model)[1]]

\* C1: when the labeled script is done, X and y have one entry per CSV row;
\* X[i] is the embedding of the block the CSV names in row i and y[i] is the
\* label of row i, whatever the order of the blocks in the log file, for
\* blocks the CSV does not mention and for block ids the CSV repeats.
C1_LabeledRowsAligned ==
    (script = "labeled" /\ pc = "done") =>
        /\ Len(saved.X) = Len(labels_csv)
        /\ Len(saved.y) = Len(labels_csv)
        /\ \A k \in 1..Len(log_file) : log_file[k].blk \in DOMAIN embedded_dataset
        /\ \A i \in 1..Len(labels_csv) :
              /\ saved.X[i] = BlockEmbedding(labels_csv[i].BlockId)
              /\ (labels_csv[i].Label = "Anomaly") = (saved.y[i] # 0)

\* a run where the CSV repeats a block id, the log file holds a block the CSV
\* does not mention, and the log file starts with the other block
C1_Witness ==
    /\ script = "labeled"
    /\ pc = "done"
    /\ Len(labels_csv) = 2
    /\ labels_csv[1].BlockId = labels_csv[2].BlockId
    /\ labels_csv[1].Label # labels_csv[2].Label
    /\ Len(log_file) = 3
    /\ log_file[1].blk # labels_csv[1].BlockId
    /\ log_file[2].blk = labels_csv[1].BlockId
    /\ log_file[3].blk = log_file[1].blk
    /\ Len(saved.X) = 2
    /\ Len(saved.X[1]) = 1

\* the text of line k as the unlabeled script embeds it
CleanedLine(k) ==
    IF config.remove_hdfs1_timestamp
    THEN remove_timestamp([text |-> log_file[k].text]).text
    ELSE log_file[k].text

\* C2: when the unlabeled script is done, the saved dataset has one row per
\* log line, in input order, and the embedding of a row is the embedding of
\* its line encoded on its own, for every batch size.
C2_OneEmbeddingPerLine ==
    (script = "unlabeled" /\ pc = "done") =>
        /\ Len(saved) = Len(log_file)
        /\ \A k \in 1..Len(log_file) :
              /\ saved[k].text = CleanedLine(k)
              /\ saved[k].embedding =
                    encode_dataset(<< [text |-> CleanedLine(k)] >>, encoder_model)[1]

\* a run with a final short batch and with lines of different lengths in
\* one batch
C2_Witness ==
    /\ script = "unlabeled"
    /\ pc = "done"
    /\ config.batch_size = 2
    /\ Len(log_file) = 3
    /\ Len(saved) = 3
    /\ Len(log_file[1].text) # Len(log_file[2].text)

ArgumentMissing ==
    \/ config.model_path = NONE
    \/ config.input_dataset_log_file = NONE
    \/ config.output_parent_folder = NONE
    \/ (script = "labeled" /\ config.input_dataset_labels_csv = NONE)

OutputOccupied ==
    /\ output_path_state.exists
    /\ (~output_path_state.is_dir \/ output_path_state.entries >= 1)

\* C3: in both embedding scripts, with a required argument missing or with
\* an output path that is a file or a directory with entries, embed_dataset
\* ends in an assertion error and has loaded and written nothing; whatever
\* is written is written to a path that did not exist or was an empty
\* directory.
C3_AssertsBeforeEffects ==
    (script \in {"unlabeled", "labeled"}) =>
        /\ (pc # "start" /\ (ArgumentMissing \/ OutputOccupied)) =>
              (pc = "AssertionError" /\ effects = {})
        /\ (effects # {}) =>
              (~ArgumentMissing /\ ~OutputOccupied)
        /\ (pc = "AssertionError") => (ArgumentMissing \/ OutputOccupied)

\* every argument is given and the output path is a directory with an entry
C3_Witness ==
    /\ script \in {"unlabeled", "labeled"}
    /\ pc = "AssertionError"
    /\ ~ArgumentMissing
    /\ output_path_state.exists
    /\ output_path_state.is_dir
    /\ output_path_state.entries = 1

NamePrefix ==
    IF script = "labeled" THEN <<"labeled_", "embedding_from_">>
    ELSE <<"embedding_from_">>

ExpectedName ==
    IF config.dataset_output_name # NONE THEN config.dataset_output_name
    ELSE Stem(Path(config.input_dataset_log_file)) \o <<"/">> \o NamePrefix
            \o Stem(Path(config.model_path))

\* C4: the output location is output_parent_folder joined with the dataset
\* name; the dataset name is --dataset-output-name when given and otherwise
\* '<log stem>/embedding_from_<model stem>' (unlabeled) or
\* '<log stem>/labeled_embedding_from_<model stem>' (labeled); the two
\* scripts never generate the same name for the same input and model.
C4_OutputLocation ==
    (script \in {"unlabeled", "labeled"} /\ pc # "start" /\ ~ArgumentMissing) =>
        /\ dataset_name = ExpectedName
        /\ output_path = JoinPath(Path(config.output_parent_folder), Path(ExpectedName))
        /\ GeneratedName("unlabeled", config.input_dataset_log_file, config.model_path)
              # GeneratedName("labeled", config.input_dataset_log_file, config.model_path)

\* the labeled script generated the name from paths that both have a suffix
C4_Witness ==
    /\ script = "labeled"
    /\ pc = "done"
    /\ config.dataset_output_name = NONE
    /\ config.input_dataset_log_file = <<"a", ".", "a">>
    /\ config.model_path = <<"m", ".", "m">>
    /\ dataset_name = <<"a", "/", "labeled_", "embedding_from_", "m">>
    /\ output_path = [root |-> <<>>,
                      parts |-> << <<"o">>, <<"a">>, <<"labeled_", "embedding_from_", "m">> >>]

\* C8: when the labeled script is done, y[i] is 1 exactly when the Label
\* field of CSV row i is the string 'Anomaly' and 0 otherwise.
C8_LabelsAreZeroOrOne ==
    (script = "labeled" /\ pc = "done") =>
        \A i \in 1..Len(saved.y) :
            /\ saved.y[i] \in {0, 1}
            /\ saved.y[i] = 1 <=> labels_csv[i].Label = "Anomaly"

\* a run with a label that differs from 'Anomaly' only in case
C8_Witness ==
    /\ script = "labeled"
    /\ pc = "done"
    /\ Len(labels_csv) = 2
    /\ labels_csv[1].Label = "anomaly"
    /\ labels_csv[2].Label = "Anomaly"
    /\ saved.y = <<0, 1>>

\* ------------------------------------------------ properties, SpecTrain
\* C5 as stated: TwoTowerICT is built exactly when the run name contains
\* '2T', OneTowerICT exactly when it contains '1T'.
C5_AsStated ==
    (script = "train" /\ "model" \in effects) =>
        /\ (model.class = "TwoTowerICT") <=> Contains(RUN_NAME, <<"2", "T">>)
        /\ (model.class = "OneTowerICT") <=> Contains(RUN_NAME, <<"1", "T">>)

\* the variant tag of the run name: the two characters that follow
\* '<encoder_type> <pretrained checkpoint> '
RunNameTag ==
    LET at == Len(config.encoder_type) + Len(config.bert_model) + 2
    IN  SubSeq(RUN_NAME, at + 1, at + 2)

\* C5, amended: TwoTowerICT is built exactly when the variant tag of the run
\* name is '2T', OneTowerICT exactly when it is '1T', for every integer value
\* of --two-tower; 0 selects one-tower and 1 selects two-tower.
C5_TagAgreesWithModel ==
    (script = "train" /\ "model" \in effects) =>
        /\ (model.class = "TwoTowerICT") <=> (RunNameTag = <<"2", "T">>)
        /\ (model.class = "OneTowerICT") <=> (RunNameTag = <<"1", "T">>)
        /\ model.class \in {"TwoTowerICT", "OneTowerICT"}
        /\ config.two_tower = 0 => model.class = "OneTowerICT"
        /\ config.two_tower = 1 => model.class = "TwoTowerICT"

\* a two-tower model built for a value of --two-tower other than 1
C5_Witness ==
    /\ script = "train"
    /\ pc = "done"
    /\ config.two_tower = -1
    /\ model.class = "TwoTowerICT"
    /\ RunNameTag = <<"2", "T">>

TrainChecksPass ==
    /\ config.dataset_name # NONE
    /\ config.train_dataset # NONE
    /\ config.eval_dataset # NONE
    /\ config.encoder_type \in DOMAIN KNOWN_ENCODER_CLASSES

\* C7: run_experiment loads a dataset, builds a model, trains or saves only
\* when dataset_name, train_dataset and eval_dataset are given and
\* encoder_type is a key of KNOWN_ENCODER_CLASSES; otherwise it stops with
\* an assertion error and saves nothing.
C7_TrainGuards ==
    (script = "train") =>
        /\ (effects \cap {"dataset", "model", "trained", "written"} # {})
              => TrainChecksPass
        /\ (~TrainChecksPass) =>
              /\ pc \in {"start", "named", "collator", "AssertionError"}
              /\ effects \subseteq {"WANDB_PROJECT", "tokenizer"}
        /\ (config.dataset_name = NONE
              \/ config.encoder_type \notin DOMAIN KNOWN_ENCODER_CLASSES) =>
              pc \in {"start", "AssertionError"}

\* a run stopped by the assertion on the encoder type
C7_Witness ==
    /\ script = "train"
    /\ pc = "AssertionError"
    /\ config.dataset_name # NONE
    /\ config.train_dataset # NONE
    /\ config.eval_dataset # NONE
    /\ config.encoder_type = <<"Bogus">>
    /\ effects = {"WANDB_PROJECT"}

\* ---------------------------------------------- properties, SpecEncoder
ExpectedDimension ==
    LET p == model_config.task_specific_params
    IN  IF p # NoParams /\ "cls_embedding_dimension" \in DOMAIN p
        THEN p["cls_embedding_dimension"] ELSE 512

\* C6: forward returns one embedding per input sequence, computed from
\* position 0 of the last hidden state only, of length
\* task_specific_params['cls_embedding_dimension'] when that is set and 512
\* otherwise, whatever the sequence length and the batch size.
C6_ClsEmbedding ==
    (script = "forward" /\ pc = "done") =>
        /\ Len(call.embedding) = Len(config.texts)
        /\ \A b \in 1..Len(config.texts) :
              /\ Len(call.embedding[b]) = ExpectedDimension
              /\ call.embedding[b] =
                    cls_projector(call.last_hidden_state[b][1], ExpectedDimension)

\* a batch of two sequences of different lengths, task_specific_params None
C6_Witness ==
    /\ script = "forward"
    /\ pc = "done"
    /\ model_config.task_specific_params = NoParams
    /\ Len(config.texts) = 2
    /\ Len(config.texts[1]) # Len(config.texts[2])
    /\ Len(call.embedding[2]) = 512

====
